---- MODULE Spec2Model ----
(***************************************************************************)
(* komainu: the poll (vote) handlers of interactions/vote.go, the access   *)
(* grant/revoke commands of commands/access.go and the access check of     *)
(* commands/commands.go, run by concurrent interaction handlers over one   *)
(* shared key-value store.                                                 *)
(*                                                                         *)
(* Every handler is cut into steps at its calls to the store and to the    *)
(* chat platform: a store call (GetObject, Set, Delete) is atomic on its   *)
(* own, and nothing in the handlers ties a read to the write after it.     *)
(***************************************************************************)
EXTENDS Integers, Sequences, FiniteSets, TLC

VARIABLES
    now,        \* time.Now().Unix()
    kvs,        \* the store: (guild, collection, key) -> value
    msgs,       \* the platform's messages: message id -> content and components shown
    nextID,     \* the id the platform gives to the next message
    events,     \* MessageDeleteEvents delivered but not yet handled
    pc,         \* per handler goroutine: the step it is at
    loc,        \* per handler goroutine: its local variables
    last,       \* what the handler that returned most recently answered
    ballots,    \* history: message id -> (voter -> the keys of the voter's ballots answered "registered", in order)
    acl,        \* history: group -> (role -> last grant/revoke answered with success)
    nops        \* handlers that went on past their checks so far

vars == <<now, kvs, msgs, nextID, events, pc, loc, last, ballots, acl, nops>>

----------------------------------------------------------------------------
(* Bounds *)

NumProcs == 2       \* handler goroutines that may be in flight together
MaxOps == 4         \* handlers that go on past their checks in one run
MaxPolls == 1       \* messages the platform creates in one run
MaxLines == 27      \* lines in the options field of a submitted form

Procs == 1..NumProcs
MessageIDs == 1..MaxPolls

----------------------------------------------------------------------------
(* Identifiers *)

\* discord.NullGuildID, NullMessageID, NullChannelID: the all-ones snowflake,
\* written -1 here.
NullGuildID == -1
NullMessageID == -1
NullChannelID == -1

Guild == 1                  \* e.GuildID: the one guild of the model
Channel == 1                \* message.ChannelID: the channel the polls are posted in
Voters == {11, 12}          \* users who click the poll's selector
Roles == {21, 22}
OwnerID == 31               \* guild.OwnerID

\* Members that invoke slash commands; NoMember is the nil *discord.Member.
NoMember == [id |-> 0, roles |-> {}, admin |-> FALSE]
Members ==
    { [id |-> OwnerID, roles |-> {}, admin |-> FALSE],      \* the guild's owner
      [id |-> 32, roles |-> {}, admin |-> TRUE],            \* an administrator
      [id |-> 33, roles |-> {21}, admin |-> FALSE],         \* holds role 21, no more
      NoMember }

----------------------------------------------------------------------------
(* Finite maps (Go maps, and the store) *)

EmptyMap == <<>>

Put(m, k, v) == [x \in (DOMAIN m) \cup {k} |-> IF x = k THEN v ELSE m[x]]

Remove(m, k) == [x \in (DOMAIN m) \ {k} |-> m[x]]

----------------------------------------------------------------------------
(* The store: storage.KeyValueStore *)

Key(guild, collection, key) == <<guild, collection, key>>

\* kvs.Set: replaces whatever is stored at the key.
Set(store, guild, collection, key, value) ==
    Put(store, Key(guild, collection, key), value)

\* kvs.GetObject: found, and the value when found.
Found(store, guild, collection, key) ==
    Key(guild, collection, key) \in DOMAIN store

GetObject(store, guild, collection, key) ==
    store[Key(guild, collection, key)]

\* kvs.Delete: removes the record; an absent record is left absent.
Delete(store, guild, collection, key) ==
    Remove(store, Key(guild, collection, key))

----------------------------------------------------------------------------
(* Time *)

SecondsPerDay == 86400          \* 24 hours per day, 3600 seconds per hour
T0 == 1000                      \* the clock at the start of a run

\* The instants the clock is read at: the start, and exactly one day later:
\* the endTime of a one-day poll created at the start, and past the endTime
\* of a zero-day poll created at the start.
TimePoints == {T0, T0 + SecondsPerDay}

----------------------------------------------------------------------------
(* storage.Vote *)

\* Text is a sequence of characters, so that len() and slicing mean something.
Pizza == <<"P", "i", "z", "z", "a">>
Tacos == <<"T", "a", "c", "o", "s">>
QuestionText == <<"L", "u", "n", "c", "h", "?">>
NoText == <<>>

\* The zero value of the struct, with empty maps.
ZeroVote ==
    [ StartTime |-> 0, EndTime |-> 0, GuildID |-> NullGuildID,
      MessageID |-> NullMessageID, ChannelID |-> NullChannelID,
      Question |-> NoText, Options |-> EmptyMap, Order |-> <<>>,
      Votes |-> EmptyMap ]

MaxOptions == 25        \* "if i > 24 { break }"
MaxLabel == 100         \* "if len(opt) > 100 { opt = opt[0:100] }"

Min(a, b) == IF a < b THEN a ELSE b

\* strconv.Itoa on the indexes that occur.
Itoa(i) == ToString(i)

\* item := "vote/" + strconv.Itoa(i)
OptionKeyFromOne(i) == "vote/" \o Itoa(i + 1)

OptionKey(i) == "vote/" \o Itoa(i)

\* opt[0:100] when len(opt) > 100
KeepWhole(opt) == opt

Truncate(opt) == IF Len(opt) > MaxLabel THEN SubSeq(opt, 1, MaxLabel) ELSE opt

\* The loop over optionList: Options and Order of the lines at index 0..24.
OptionsOf(optionList) ==
    LET n == Min(Len(optionList), MaxOptions)
    IN  [ k \in {OptionKey(i - 1) : i \in 1..n} |->
            Truncate(optionList[CHOOSE i \in 1..n : OptionKey(i - 1) = k]) ]

OrderOf(optionList) ==
    [ i \in 1..Min(Len(optionList), MaxOptions) |-> OptionKey(i - 1) ]

\* The keys of a submitted modal, and the float each "desc/<days>" key parses
\* to (strconv.ParseFloat), in millionths of a day: CommandVote writes the key
\* with "%f", six decimals. ParseError is the key ParseFloat rejects.
DescKeys == {"desc/1.000000", "desc/0.000000", "desc/x"}
ModalKeys == DescKeys \cup {"options", "bogus"}
ParseError == -1
ParseFloat(key) ==
    CASE key = "desc/1.000000" -> 1000000
      [] key = "desc/0.000000" -> 0
      [] OTHER -> ParseError

\* int64(days*24*float64(3600)), days given in millionths of a day (the six
\* decimals of "%f"). The product is a float64 product, rounded after each
\* multiplication, and the conversion cuts it toward zero. The exact product
\* of a length of m millionths is m*0.0864; where that is not a whole number
\* it is at least 0.0016 from one, so the rounding does not change the
\* seconds. Where it is a whole number the float64 product is either that
\* number or just below it, and then the conversion gives one second less:
\* FallsShort lists the lengths up to two days for which it is just below
\* (0.3 days: 25919.999999999996, 0.7 days: 60479.99999999999). A whole
\* number of days is exact. A negative length gives the negative of what its
\* magnitude gives. The operator is defined on whole days up to 365 and on all
\* lengths up to two days.
FallsShort ==
    { 9375, 18125, 18750, 21875, 23125, 36250, 37500, 43125, 43750, 46250,
      59375, 70625, 71875, 72500, 75000, 86250, 87500, 88125, 90625,
      92500, 103125, 118750, 125625, 128125, 129375, 134375, 141250,
      143750, 145000, 150000, 156875, 159375, 160625, 165625, 169375,
      172500, 175000, 176250, 179375, 181250, 185000, 188125, 190625,
      206250, 221875, 237500, 251250, 253125, 256250, 258750, 266875,
      268750, 271875, 274375, 282500, 284375, 287500, 290000, 298125,
      300000, 303125, 305625, 313750, 315625, 318750, 321250, 329375,
      331250, 334375, 336875, 338750, 343125, 345000, 346875, 350000,
      352500, 354375, 358750, 360625, 362500, 365625, 368125, 370000,
      374375, 376250, 378125, 381250, 396875, 412500, 428125, 443750,
      459375, 475000, 490625, 501875, 502500, 506250, 512500, 517500,
      518125, 521875, 528125, 533125, 533750, 537500, 543750, 548750,
      549375, 553125, 559375, 564375, 565000, 568750, 575000, 580000,
      580625, 584375, 590625, 595625, 596250, 600000, 606250, 611250,
      611875, 615625, 621875, 626875, 627500, 631250, 637500, 642500,
      643125, 646875, 653125, 658125, 658750, 662500, 668750, 670625,
      673750, 674375, 677500, 678125, 684375, 686250, 689375, 690000,
      693125, 693750, 700000, 701875, 705000, 705625, 708750, 709375,
      715625, 717500, 720625, 721250, 724375, 725000, 731250, 733125,
      736250, 736875, 740000, 740625, 746875, 748750, 751875, 752500,
      755625, 756250, 762500, 778125, 793750, 809375, 825000, 840625,
      856250, 871875, 887500, 903125, 918750, 934375, 950000, 965625,
      981250, 996875, 1003750, 1005000, 1009375, 1012500, 1019375,
      1020625, 1025000, 1028125, 1035000, 1036250, 1040625, 1043750,
      1050625, 1051875, 1056250, 1059375, 1066250, 1067500, 1071875,
      1075000, 1081875, 1083125, 1087500, 1090625, 1097500, 1098750,
      1103125, 1106250, 1113125, 1114375, 1118750, 1121875, 1128750,
      1130000, 1134375, 1137500, 1144375, 1145625, 1150000, 1153125,
      1160000, 1161250, 1165625, 1168750, 1175625, 1176875, 1181250,
      1184375, 1191250, 1192500, 1196875, 1200000, 1206875, 1208125,
      1212500, 1215625, 1222500, 1223750, 1228125, 1231250, 1238125,
      1239375, 1243750, 1246875, 1253750, 1255000, 1259375, 1262500,
      1269375, 1270625, 1275000, 1278125, 1285000, 1286250, 1290625,
      1293750, 1300625, 1301875, 1306250, 1309375, 1316250, 1317500,
      1321875, 1325000, 1331875, 1333125, 1337500, 1339375, 1340625,
      1341250, 1347500, 1348750, 1353125, 1355000, 1356250, 1356875,
      1363125, 1364375, 1368750, 1370625, 1371875, 1372500, 1378750,
      1380000, 1384375, 1386250, 1387500, 1388125, 1394375, 1395625,
      1400000, 1401875, 1403125, 1403750, 1410000, 1411250, 1415625,
      1417500, 1418750, 1419375, 1425625, 1426875, 1431250, 1433125,
      1434375, 1435000, 1441250, 1442500, 1446875, 1448750, 1450000,
      1450625, 1456875, 1458125, 1462500, 1464375, 1465625, 1466250,
      1472500, 1473750, 1478125, 1480000, 1481250, 1481875, 1488125,
      1489375, 1493750, 1495625, 1496875, 1497500, 1503750, 1505000,
      1509375, 1511250, 1512500, 1513125, 1525000, 1540625, 1556250,
      1571875, 1587500, 1603125, 1618750, 1634375, 1650000, 1665625,
      1681250, 1696875, 1712500, 1728125, 1743750, 1759375, 1775000,
      1790625, 1806250, 1821875, 1837500, 1853125, 1868750, 1884375,
      1900000, 1915625, 1931250, 1946875, 1962500, 1978125, 1993750 }

SecondsOf(microdays) ==
    LET m == IF microdays < 0 THEN -microdays ELSE microdays
        exact == (m \div 1000000) * SecondsPerDay
                    + ((m % 1000000) * (SecondsPerDay \div 100)) \div 10000
        seconds == CASE m % 1000000 = 0 /\ m <= 365 * 1000000 -> exact
                     [] m % 1000000 # 0 /\ m <= 2 * 1000000 ->
                            IF m \in FallsShort THEN exact - 1 ELSE exact
    IN  IF microdays < 0 THEN -seconds ELSE seconds

\* vote.String(): the tally shown in the poll's message: the question, each
\* option's count in Order sequence, and the total number of ballots.
CountFor(vote, key) == Cardinality({u \in DOMAIN vote.Votes : vote.Votes[u] = key})

String(vote) ==
    [ question |-> vote.Question,
      counts |-> [i \in 1..Len(vote.Order) |-> CountFor(vote, vote.Order[i])],
      total |-> Cardinality(DOMAIN vote.Votes) ]

\* vote.Store(kvs)
StoreVote(store, vote) == Set(store, vote.GuildID, "votes", vote.MessageID, vote)

\* storage.GetVote(kvs, guildID, messageID)
VoteExists(store, guildID, messageID) == Found(store, guildID, "votes", messageID)

GetVote(store, guildID, messageID) == GetObject(store, guildID, "votes", messageID)

----------------------------------------------------------------------------
(* Command groups and the access check: commands/commands.go, access.go *)

\* commandGroups: the groups the command table names.
CommandGroups == {"access", "seen", "faquser", "faqadmin"}

\* The commands of the table that the model dispatches, and their groups.
CommandNames == {"access", "faqset"}
GroupOf(name) == IF name = "access" THEN "access" ELSE "faqadmin"

\* strings.ToLower on the group names that are submitted.
GroupInputs == {"faqadmin", "FAQAdmin", "seen", "nogroup"}
ToLower(s) == IF s = "FAQAdmin" THEN "faqadmin" ELSE s

\* utility.ContainsString, utility.ContainsRole
ContainsString(list, s) == s \in list
ContainsRole(granted, roleID) == \E i \in 1..Len(granted) : granted[i] = roleID

\* HasAccess: nil member: no; guild lookup failed: no; owner: yes; permission
\* lookup failed: no; administrator: yes; otherwise no. The roles stored for
\* the group are not read.
HasAccess(store, member, guildErr, permErr, group) ==
    IF member = NoMember THEN FALSE
    ELSE IF guildErr THEN FALSE
    ELSE IF OwnerID = member.id THEN TRUE
    ELSE IF permErr THEN FALSE
    ELSE member.admin

\* granted = append(granted, roleID)
GrantTwice(granted, roleID) == Append(Append(granted, roleID), roleID)

Grant(granted, roleID) == Append(granted, roleID)

\* The loop of the revoke: the last element is copied over the first
\* occurrence of roleID and the slice is cut by one; with no occurrence the
\* loop ends and the slice is as it was.
RevokeNone(granted, roleID) == granted

Revoke(granted, roleID) ==
    LET n == Len(granted)
        idx == CHOOSE i \in 1..n :
                  granted[i] = roleID /\ \A j \in 1..(i - 1) : granted[j] # roleID
    IN  IF \A i \in 1..n : granted[i] # roleID
           THEN granted
           ELSE SubSeq([granted EXCEPT ![idx] = granted[n]], 1, n - 1)

\* if found && utility.ContainsRole(granted, roleID)
RevokeAlways(found, granted, roleID) == TRUE

Revocable(found, granted, roleID) == found /\ ContainsRole(granted, roleID)

----------------------------------------------------------------------------
(* Handler goroutines *)

\* The local variables of a handler, zero-valued while it is idle.
Locals0 ==
    [ vote |-> ZeroVote, sender |-> 0, msg |-> NullMessageID,
      channel |-> NullChannelID, voted |-> "", label |-> NoText,
      group |-> "", role |-> 0, granted |-> <<>>, optionList |-> <<>>,
      selectable |-> <<>>,
      reads |-> 0 ]     \* how many times the handler has read the store

NoAnswer == [op |-> "none", resp |-> "", err |-> FALSE]

Init ==
    /\ now = T0
    /\ kvs = EmptyMap
    /\ msgs = EmptyMap
    /\ nextID = 1
    /\ events = {}
    /\ pc = [p \in Procs |-> "idle"]
    /\ loc = [p \in Procs |-> Locals0]
    /\ last = NoAnswer
    /\ ballots = [m \in MessageIDs |-> EmptyMap]
    /\ acl = [g \in CommandGroups |-> [r \in Roles |-> "none"]]
    /\ nops = 0

\* A handler is invoked on goroutine p, the first that is free.
Begin(p) ==
    /\ pc[p] = "idle"
    /\ \A q \in 1..(p - 1) : pc[q] # "idle"
    /\ nops < MaxOps

\* The handler on p returns, answering resp; err: it also reported an error.
Return(p, op, resp, err) ==
    /\ pc' = [pc EXCEPT ![p] = "idle"]
    /\ loc' = [loc EXCEPT ![p] = Locals0]
    /\ last' = [op |-> op, resp |-> resp, err |-> err]

\* The handler on p goes on to its next step with locals l.
Goto(p, step, l) ==
    /\ pc' = [pc EXCEPT ![p] = step]
    /\ loc' = [loc EXCEPT ![p] = l]
    /\ UNCHANGED last

\* The handler just invoked on p returns at once; it is not counted.
ReturnNow(p, op, resp, err) == Return(p, op, resp, err) /\ nops' = nops

\* The handler just invoked on p passes its checks and goes on; it is counted.
Proceed(p, step, l) == Goto(p, step, l) /\ nops' = nops + 1

----------------------------------------------------------------------------
(* The clock and the platform *)

Tick ==
    /\ \E t \in TimePoints :
          /\ t > now
          /\ \A u \in TimePoints : u > now => t <= u
          /\ now' = t
    /\ UNCHANGED <<kvs, msgs, nextID, events, pc, loc, last, ballots, acl, nops>>

\* A user deletes a poll's message; the gateway delivers a MessageDeleteEvent.
MessageDeleted ==
    /\ \E m \in DOMAIN msgs :
          /\ msgs' = Remove(msgs, m)
          /\ events' = events \cup {<<Guild, m>>}
    /\ UNCHANGED <<now, kvs, nextID, pc, loc, last, ballots, acl, nops>>

----------------------------------------------------------------------------
(* interactions/vote.go *)

\* A deletion outside any guild (a direct message, message 0) is delivered
\* with the null guild id.
DirectMessageDeleted == <<NullGuildID, 0>>

\* DeleteVote: one MessageDeleteEvent e = <<e.GuildID, e.ID>> is handled.
\* kvs.Delete may fail; the error is logged and the record stays.
DeleteGuild ==
    /\ \E e \in events \cup {DirectMessageDeleted} :
          /\ events' = events \ {e}
          /\ kvs' = [k \in {x \in DOMAIN kvs : x[1] # e[1]} |-> kvs[k]]
          /\ last' = [op |-> "delete", resp |-> "deleted", err |-> FALSE]
    /\ UNCHANGED <<now, msgs, nextID, pc, loc, ballots, acl, nops>>

DeleteVote ==
    /\ \E e \in events \cup {DirectMessageDeleted}, deleteErr \in BOOLEAN :
          /\ events' = events \ {e}
          /\ IF e[1] = NullGuildID
                THEN /\ kvs' = kvs
                     /\ last' = [op |-> "delete", resp |-> "noguild", err |-> FALSE]
                ELSE IF deleteErr
                THEN /\ kvs' = kvs
                     /\ last' = [op |-> "delete", resp |-> "logged", err |-> TRUE]
                ELSE /\ kvs' = Delete(kvs, e[1], "votes", e[2])
                     /\ last' = [op |-> "delete", resp |-> "deleted", err |-> FALSE]
    /\ UNCHANGED <<now, msgs, nextID, pc, loc, ballots, acl, nops>>

\* commandVoteObject: the "length" option of /vote is a number of days that
\* the platform accepts from Min to Max, both ends included.
MinDays == 0
MaxDays == 365

\* The lengths /vote is invoked with, in millionths of a day: none, one day,
\* and one on each side of what the option accepts.
DayInputs == {-1000000, 0, 1000000, 366000000}

Accepted(days) == MinDays * 1000000 <= days /\ days <= MaxDays * 1000000

\* fmt.Sprintf("desc/%f", days) on the lengths that are accepted.
Sprintf(days) ==
    CASE days = 1000000 -> "desc/1.000000"
      [] days = 0 -> "desc/0.000000"

\* CommandVote: the custom ids of the two fields of the form it answers with.
\* It checks nothing about the length itself.
CommandVote(days) == {Sprintf(days), "options"}

\* The sets of keys a modal is submitted with: the forms of CommandVote, and
\* the sets that the handler's error returns are for.
ModalKeySets ==
    { CommandVote(days) : days \in {d \in DayInputs : Accepted(d)} }
    \cup { {"desc/1.000000", "desc/0.000000", "options"},
           {"desc/x", "options"}, {"desc/1.000000", "options", "bogus"} }

OptionLists == { <<Pizza, Tacos>> }

\* strings.HasPrefix(key, "desc/")
HasDescPrefix(key) == key \in DescKeys

\* The answers the loop over the modal's data can return early with. The data
\* is a map, ranged over in any order; the question is never empty, so a
\* second "desc/" key is always a duplicate.
ModalErrors(keys) ==
    LET desc == {k \in keys : HasDescPrefix(k)}
        good == {k \in desc : ParseFloat(k) # ParseError}
    IN  (IF Cardinality(desc) > 1 /\ good # {} THEN {"duplicate"} ELSE {})
        \cup (IF desc # good THEN {"length"} ELSE {})
        \cup (IF keys \ (desc \cup {"options"}) # {} THEN {"unknown"} ELSE {})

\* The vote the handler builds from a modal that passes.
NewVote(keys, optionList, t) ==
    LET desc == {k \in keys : HasDescPrefix(k)}
        days == ParseFloat(CHOOSE k \in desc : TRUE)
    IN  [ StartTime |-> t,
          EndTime |-> IF desc = {} THEN 0 ELSE t + SecondsOf(days),
          GuildID |-> Guild,
          MessageID |-> NullMessageID,
          ChannelID |-> NullChannelID,
          Question |-> IF desc = {} THEN NoText ELSE QuestionText,
          Options |-> IF "options" \in keys THEN OptionsOf(optionList) ELSE EmptyMap,
          Order |-> IF "options" \in keys THEN OrderOf(optionList) ELSE <<>>,
          Votes |-> EmptyMap ]

\* The sequences a range over a Go map with the keys S may visit them in: the
\* iteration order of a map is not specified, and differs from run to run.
RECURSIVE MapRange(_)
MapRange(S) ==
    IF S = {} THEN {<<>>}
    ELSE UNION { { <<k>> \o rest : rest \in MapRange(S \ {k}) } : k \in S }

\* makeVoteSelector: the select options it can build, one SelectOption per
\* entry of vote.Options, in the order the range over the map visits them.
makeVoteSelector(vote) ==
    { [i \in 1..Len(keys) |-> [Label |-> vote.Options[keys[i]], Value |-> keys[i]]] :
        keys \in MapRange(DOMAIN vote.Options) }

\* VoteModalHandler up to its return: the vote and its selector are built,
\* nothing is stored.
VoteModalHandler(p) ==
    /\ Begin(p)
    /\ \E keys \in ModalKeySets, optionList \in OptionLists :
          IF ModalErrors(keys) # {}
             THEN \E e \in ModalErrors(keys) : ReturnNow(p, "modal", e, FALSE)
             ELSE \E selectable \in makeVoteSelector(NewVote(keys, optionList, now)) :
                     Proceed(p, "Respond", [Locals0 EXCEPT !.vote = NewVote(keys, optionList, now),
                                                            !.optionList = optionList,
                                                            !.selectable = selectable])
    /\ UNCHANGED <<now, kvs, msgs, nextID, events, ballots, acl>>

\* The response is sent: the platform posts the poll's message, with the
\* tally as its content and the selector as its components, and names it; or
\* it fails, and then the callback is never called.
Respond(p) ==
    /\ pc[p] = "Respond"
    /\ \/ /\ nextID <= MaxPolls
          /\ msgs' = Put(msgs, nextID, [content |-> String(loc[p].vote),
                                        components |-> loc[p].selectable])
          /\ nextID' = nextID + 1
          /\ Goto(p, "Callback", [loc[p] EXCEPT !.msg = nextID, !.channel = Channel])
       \/ /\ Return(p, "modal", "notsent", TRUE)
          /\ UNCHANGED <<msgs, nextID>>
    /\ UNCHANGED <<now, kvs, events, ballots, acl, nops>>

\* vote.MessageID = message.ID; vote.ChannelID = message.ChannelID
ForgetMessage(vote, messageID, channelID) == vote

Confirmed(vote, messageID, channelID) ==
    [vote EXCEPT !.MessageID = messageID, !.ChannelID = channelID]

\* The callback: the vote gets the message's ids and is stored; a failed
\* Store is logged.
Callback(p) ==
    /\ pc[p] = "Callback"
    /\ LET vote == Confirmed(loc[p].vote, loc[p].msg, loc[p].channel)
       IN  \/ /\ kvs' = StoreVote(kvs, vote)
              /\ Return(p, "modal", "stored", FALSE)
           \/ /\ kvs' = kvs
              /\ Return(p, "modal", "notstored", TRUE)
    /\ UNCHANGED <<now, msgs, nextID, events, ballots, acl, nops>>

\* The loop over optionList on its own (lines 134 to 144), on option fields
\* of up to MaxLines lines whose lengths lie on both sides of MaxLabel. A line
\* is a run of one character; the lines of a list alternate between two
\* lengths and two characters. strings.Split gives at least one line.
Line(n, c) == [j \in 1..n |-> c]

LineLengths == {0, MaxLabel - 1, MaxLabel, MaxLabel + 1}

LongOptionLists ==
    { [i \in 1..n |-> IF i % 2 = 0 THEN Line(l, "a") ELSE Line(l + 1, "b")] :
        n \in 1..MaxLines, l \in LineLengths }

InitOptions ==
    /\ now = T0
    /\ kvs = EmptyMap
    /\ msgs = EmptyMap
    /\ nextID = 1
    /\ events = {}
    /\ pc = [p \in Procs |-> IF p = 1 THEN "Options" ELSE "idle"]
    /\ \E optionList \in LongOptionLists :
          loc = [p \in Procs |-> IF p = 1 THEN [Locals0 EXCEPT !.optionList = optionList]
                                          ELSE Locals0]
    /\ last = NoAnswer
    /\ ballots = [m \in MessageIDs |-> EmptyMap]
    /\ acl = [g \in CommandGroups |-> [r \in Roles |-> "none"]]
    /\ nops = 0

OptionsLoop(p) ==
    /\ pc[p] = "Options"
    /\ Goto(p, "OptionsDone",
            [loc[p] EXCEPT !.vote = [@ EXCEPT !.Options = OptionsOf(loc[p].optionList),
                                              !.Order = OrderOf(loc[p].optionList)]])
    /\ UNCHANGED <<now, kvs, msgs, nextID, events, ballots, acl, nops>>

OptionsNext == \E p \in Procs : OptionsLoop(p)

SpecOptions == InitOptions /\ [][OptionsNext]_vars

\* The component interactions that are submitted: select: the interaction is
\* a *discord.SelectInteraction; values: selector.Values; getErr: GetVote
\* fails on the store.
Interactions ==
    { [select |-> TRUE, values |-> <<k>>, getErr |-> FALSE] :
        k \in {"vote/0", "vote/1", "vote/7"} }
    \cup { [select |-> FALSE, values |-> <<"vote/0">>, getErr |-> FALSE],
           [select |-> TRUE, values |-> <<>>, getErr |-> FALSE],
           [select |-> TRUE, values |-> <<"vote/0", "vote/1">>, getErr |-> FALSE],
           [select |-> TRUE, values |-> <<"vote/0">>, getErr |-> TRUE] }

\* vote.EndTime <= now
ClosedAfter(vote, t) == vote.EndTime < t

Closed(vote, t) == vote.EndTime <= t

\* label, ok := vote.Options[voted]
AnyOption(vote, voted) == TRUE

IsOption(vote, voted) == voted \in DOMAIN vote.Options

Label(vote, voted) == IF voted \in DOMAIN vote.Options THEN vote.Options[voted] ELSE NoText

\* vote.Votes[e.SenderID()] = voted
CastOnlyBallot(vote, sender, voted) == [vote EXCEPT !.Votes = (sender :> voted)]

KeepFirstBallot(vote, sender, voted) ==
    IF sender \in DOMAIN vote.Votes THEN vote ELSE [vote EXCEPT !.Votes = Put(@, sender, voted)]

CastBallot(vote, sender, voted) ==
    [vote EXCEPT !.Votes = Put(@, sender, voted)]

\* if !exist
AlwaysAPoll(exist) == FALSE

NotAPoll(exist) == ~exist

\* ComponentVote, handleInteractionAsVote up to EditMessage: the vote is read
\* from the store (GetVote may fail), the clock is read, the interaction is
\* checked, and the ballot is put into the handler's own copy of the vote.
ComponentVote(p) ==
    /\ Begin(p)
    /\ \E m \in MessageIDs, sender \in Voters, i \in Interactions :
          /\ m < nextID
          /\ LET exist == VoteExists(kvs, Guild, m)
                 vote == IF exist THEN GetVote(kvs, Guild, m) ELSE ZeroVote
                 voted == i.values[1]
             IN  IF i.getErr
                    THEN ReturnNow(p, "vote", "odd", TRUE)
                 ELSE IF NotAPoll(exist)
                    THEN ReturnNow(p, "vote", "notpoll", FALSE)
                 ELSE IF Closed(vote, now)
                    THEN ReturnNow(p, "vote", "closed", FALSE)
                 ELSE IF ~i.select
                    THEN ReturnNow(p, "vote", "format", TRUE)
                 ELSE IF Len(i.values) # 1
                    THEN ReturnNow(p, "vote", "exactlyone", TRUE)
                 ELSE IF ~IsOption(vote, voted)
                    THEN ReturnNow(p, "vote", "cantvote", TRUE)
                 ELSE Proceed(p, "EditMessage",
                           [Locals0 EXCEPT !.reads = 1,
                                           !.vote = CastBallot(vote, sender, voted),
                                           !.sender = sender, !.msg = m,
                                           !.channel = Channel, !.voted = voted,
                                           !.label = Label(vote, voted)])
    /\ UNCHANGED <<now, kvs, msgs, nextID, events, ballots, acl>>

\* state.EditMessage(e.ChannelID, e.Message.ID, vote.String()): the message's
\* content is the handler's tally, or the edit fails (always so for a message
\* that is gone) and the handler returns without storing.
EditMessage(p) ==
    /\ pc[p] = "EditMessage"
    /\ \/ /\ loc[p].msg \in DOMAIN msgs
          /\ msgs' = [msgs EXCEPT ![loc[p].msg].content = String(loc[p].vote)]
          /\ Goto(p, "Store", loc[p])
       \/ /\ msgs' = msgs
          /\ Return(p, "vote", "notedited", TRUE)
    /\ UNCHANGED <<now, kvs, nextID, events, ballots, acl, nops>>

\* The history, with a ballot of sender on message m answered "registered".
Registered(history, m, sender, voted) ==
    [history EXCEPT ![m] =
        Put(@, sender, Append(IF sender \in DOMAIN @ THEN @[sender] ELSE <<>>, voted))]

\* vote.Store(kvs) and the return: the handler's copy replaces the record, or
\* the write fails, because the store is unavailable ("notstored") or because
\* its transaction was aborted by a conflict ("conflict"); either way the
\* handler returns the error.
Store(p) ==
    /\ pc[p] = "Store"
    /\ \/ /\ kvs' = StoreVote(kvs, loc[p].vote)
          /\ ballots' = Registered(ballots, loc[p].msg, loc[p].sender, loc[p].voted)
          /\ Return(p, "vote", "registered", FALSE)
       \/ /\ kvs' = kvs
          /\ ballots' = ballots
          /\ \E e \in {"notstored", "conflict"} : Return(p, "vote", e, TRUE)
    /\ UNCHANGED <<now, msgs, nextID, events, acl, nops>>

----------------------------------------------------------------------------
(* commands/commands.go, commands/access.go *)

\* An /access command as it arrives: top: Options holds one subcommand;
\* args: the number of the subcommand's options; roleOK: the role option is a
\* snowflake.
GoodRequests ==
    { [top |-> TRUE, sub |-> s, args |-> 2, group |-> g, role |-> r, roleOK |-> TRUE] :
        s \in {"grant", "revoke"}, g \in GroupInputs, r \in Roles }

BadRequests ==
    { [top |-> FALSE, sub |-> "grant", args |-> 2, group |-> "faqadmin", role |-> 21, roleOK |-> TRUE],
      [top |-> TRUE, sub |-> "list", args |-> 0, group |-> "", role |-> 21, roleOK |-> TRUE],
      [top |-> TRUE, sub |-> "nosuch", args |-> 0, group |-> "", role |-> 21, roleOK |-> TRUE],
      [top |-> TRUE, sub |-> "grant", args |-> 1, group |-> "faqadmin", role |-> 21, roleOK |-> TRUE],
      [top |-> TRUE, sub |-> "revoke", args |-> 1, group |-> "faqadmin", role |-> 21, roleOK |-> TRUE],
      [top |-> TRUE, sub |-> "grant", args |-> 2, group |-> "faqadmin", role |-> 21, roleOK |-> FALSE],
      [top |-> TRUE, sub |-> "revoke", args |-> 2, group |-> "faqadmin", role |-> 21, roleOK |-> FALSE] }

Owner == [id |-> OwnerID, roles |-> {}, admin |-> FALSE]
AnyRequest == CHOOSE r \in GoodRequests : r.sub = "grant"

\* The slash commands that are invoked: name: the command; member: e.Member;
\* guildErr, permErr: state.Guild, state.Permissions fail; req: the /access
\* command's options; getErr: GetObject fails on the store.
Invocations ==
    { [name |-> "access", member |-> Owner, guildErr |-> FALSE, permErr |-> FALSE,
       req |-> r, getErr |-> FALSE] : r \in GoodRequests \cup BadRequests }
    \cup { [name |-> "access", member |-> Owner, guildErr |-> FALSE, permErr |-> FALSE,
            req |-> r, getErr |-> TRUE] : r \in {q \in GoodRequests : q.group = "faqadmin" /\ q.role = 21} }
    \cup { [name |-> n, member |-> m, guildErr |-> FALSE, permErr |-> FALSE,
            req |-> AnyRequest, getErr |-> FALSE] : n \in CommandNames, m \in Members }
    \cup { [name |-> "access", member |-> m, guildErr |-> g, permErr |-> ~g,
            req |-> AnyRequest, getErr |-> FALSE] : m \in Members, g \in BOOLEAN }

\* The role's last answered grant or revoke, for the history.
Answered(history, group, roleID, what) ==
    [history EXCEPT ![group] = [@ EXCEPT ![roleID] = what]]

\* SubCommandAccessGrant up to sniper.Set.
SubCommandAccessGrant(p, req, getErr) ==
    LET commandGroup == ToLower(req.group)
        found == Found(kvs, Guild, "access", commandGroup)
        granted == IF found THEN GetObject(kvs, Guild, "access", commandGroup) ELSE <<>>
    IN  IF req.args # 2
           THEN ReturnNow(p, "grant", "structure", FALSE) /\ acl' = acl
        ELSE IF ~ContainsString(CommandGroups, commandGroup)
           THEN ReturnNow(p, "grant", "nogroup", FALSE) /\ acl' = acl
        ELSE IF ~req.roleOK \/ getErr
           THEN ReturnNow(p, "grant", "error", TRUE) /\ acl' = acl
        ELSE IF ~found \/ ~ContainsRole(granted, req.role)
           THEN /\ Proceed(p, "GrantSet",
                        [Locals0 EXCEPT !.reads = 1,
                                        !.group = commandGroup, !.role = req.role,
                                        !.granted = Grant(granted, req.role)])
                /\ acl' = acl
        ELSE /\ ReturnNow(p, "grant", "granted", FALSE)
             /\ acl' = Answered(acl, commandGroup, req.role, "grant")

\* SubCommandAccessRevoke up to sniper.Set.
SubCommandAccessRevoke(p, req, getErr) ==
    LET commandGroup == ToLower(req.group)
        found == Found(kvs, Guild, "access", commandGroup)
        granted == IF found THEN GetObject(kvs, Guild, "access", commandGroup) ELSE <<>>
    IN  IF req.args # 2
           THEN ReturnNow(p, "revoke", "structure", FALSE) /\ acl' = acl
        ELSE IF ~ContainsString(CommandGroups, commandGroup)
           THEN ReturnNow(p, "revoke", "nogroup", FALSE) /\ acl' = acl
        ELSE IF ~req.roleOK \/ getErr
           THEN ReturnNow(p, "revoke", "error", TRUE) /\ acl' = acl
        ELSE IF Revocable(found, granted, req.role)
           THEN /\ Proceed(p, "RevokeSet",
                        [Locals0 EXCEPT !.reads = 1,
                                        !.group = commandGroup, !.role = req.role,
                                        !.granted = Revoke(granted, req.role)])
                /\ acl' = acl
        ELSE /\ ReturnNow(p, "revoke", "revoked", FALSE)
             /\ acl' = Answered(acl, commandGroup, req.role, "revoke")

\* CommandAccess: the switch on the subcommand. The list subcommand only reads.
CommandAccess(p, req, getErr) ==
    IF ~req.top
       THEN ReturnNow(p, "access", "weird", FALSE) /\ acl' = acl
    ELSE IF req.sub = "grant" THEN SubCommandAccessGrant(p, req, getErr)
    ELSE IF req.sub = "revoke" THEN SubCommandAccessRevoke(p, req, getErr)
    ELSE IF req.sub = "list"
       THEN ReturnNow(p, "list", IF getErr THEN "error" ELSE "listed", getErr) /\ acl' = acl
    ELSE ReturnNow(p, "access", "unknown", FALSE) /\ acl' = acl

\* AddCommandHandler: the handler of a slash command: the access check on the
\* command's group, then the command's code. Of the commands only /access
\* has its code modelled; the others run without touching what is modelled.
AddCommandHandler(p) ==
    /\ Begin(p)
    /\ \E c \in Invocations :
          IF ~HasAccess(kvs, c.member, c.guildErr, c.permErr, GroupOf(c.name))
             THEN ReturnNow(p, c.name, "denied", FALSE) /\ acl' = acl
          ELSE IF c.name = "access"
             THEN CommandAccess(p, c.req, c.getErr)
          ELSE ReturnNow(p, c.name, "ran", FALSE) /\ acl' = acl
    /\ UNCHANGED <<now, kvs, msgs, nextID, events, ballots>>

\* sniper.Set of the grant, and the answer. A Set that fails, for whatever
\* reason ("conflict": its transaction was aborted by a conflict), is answered
\* with the error message.
GrantSet(p) ==
    /\ pc[p] = "GrantSet"
    /\ \/ /\ kvs' = Set(kvs, Guild, "access", loc[p].group, loc[p].granted)
          /\ acl' = Answered(acl, loc[p].group, loc[p].role, "grant")
          /\ Return(p, "grant", "granted", FALSE)
       \/ /\ kvs' = kvs
          /\ acl' = acl
          /\ \E e \in {"error", "conflict"} : Return(p, "grant", e, TRUE)
    /\ UNCHANGED <<now, msgs, nextID, events, ballots, nops>>

\* sniper.Set of the revoke, and the answer.
RevokeSet(p) ==
    /\ pc[p] = "RevokeSet"
    /\ \/ /\ kvs' = Set(kvs, Guild, "access", loc[p].group, loc[p].granted)
          /\ acl' = Answered(acl, loc[p].group, loc[p].role, "revoke")
          /\ Return(p, "revoke", "revoked", FALSE)
       \/ /\ kvs' = kvs
          /\ acl' = acl
          /\ \E e \in {"error", "conflict"} : Return(p, "revoke", e, TRUE)
    /\ UNCHANGED <<now, msgs, nextID, events, ballots, nops>>

----------------------------------------------------------------------------
(* The specifications *)

\* The poll handlers and the access commands share nothing but the store, and
\* there they use different collections ("votes", "access"), so each side is
\* checked on its own.

\* Polls: handlers run concurrently, one goroutine per interaction or event.
VoteNext ==
    \/ Tick
    \/ MessageDeleted
    \/ DeleteVote
    \/ \E p \in Procs : VoteModalHandler(p)
    \/ \E p \in Procs : Respond(p)
    \/ \E p \in Procs : Callback(p)
    \/ \E p \in Procs : ComponentVote(p)
    \/ \E p \in Procs : EditMessage(p)
    \/ \E p \in Procs : Store(p)

SpecVote == Init /\ [][VoteNext]_vars

\* Access commands: handlers run concurrently, one goroutine per command.
AccessNext ==
    \/ \E p \in Procs : AddCommandHandler(p)
    \/ \E p \in Procs : GrantSet(p)
    \/ \E p \in Procs : RevokeSet(p)

SpecAccess == Init /\ [][AccessNext]_vars

\* Handlers run one after another: one is invoked only when none is in flight.
AllIdle == \A p \in Procs : pc[p] = "idle"

VoteSeqNext ==
    \/ Tick
    \/ MessageDeleted
    \/ AllIdle /\ DeleteVote
    \/ AllIdle /\ \E p \in Procs : VoteModalHandler(p)
    \/ \E p \in Procs : Respond(p)
    \/ \E p \in Procs : Callback(p)
    \/ AllIdle /\ \E p \in Procs : ComponentVote(p)
    \/ \E p \in Procs : EditMessage(p)
    \/ \E p \in Procs : Store(p)

SpecVoteSeq == Init /\ [][VoteSeqNext]_vars

AccessSeqNext ==
    \/ AllIdle /\ \E p \in Procs : AddCommandHandler(p)
    \/ \E p \in Procs : GrantSet(p)
    \/ \E p \in Procs : RevokeSet(p)

SpecAccessSeq == Init /\ [][AccessSeqNext]_vars

\* The store with both of its collections in use: polls are created and
\* their messages deleted while access lists are granted and revoked, one
\* command at a time.
StoreNext ==
    \/ MessageDeleted
    \/ DeleteVote
    \/ AllIdle /\ \E p \in Procs : VoteModalHandler(p)
    \/ \E p \in Procs : Respond(p)
    \/ \E p \in Procs : Callback(p)
    \/ AllIdle /\ \E p \in Procs : AddCommandHandler(p)
    \/ \E p \in Procs : GrantSet(p)
    \/ \E p \in Procs : RevokeSet(p)

SpecStore == Init /\ [][StoreNext]_vars

----------------------------------------------------------------------------
(* Properties *)

RECURSIVE SumSeq(_)
SumSeq(s) == IF s = <<>> THEN 0 ELSE s[1] + SumSeq(Tail(s))

Last(s) == s[Len(s)]

\* The role set stored for a group: nothing stored is the empty set.
StoredRoles(g) ==
    IF Found(kvs, Guild, "access", g)
       THEN LET granted == GetObject(kvs, Guild, "access", g)
            IN  {granted[i] : i \in 1..Len(granted)}
       ELSE {}

\* The in-memory set: the roles whose last answered command was a grant.
ReplayedRoles(g) == {r \in Roles : acl[g][r] = "grant"}

\* No ballot cast is in flight on message m.
NoCastInFlight(m) ==
    \A p \in Procs : pc[p] \in {"EditMessage", "Store"} => loc[p].msg # m

\* The keys of the store that hold votes.
VoteKeys == {k \in DOMAIN kvs : k[2] = "votes"}

\* C1: when the ballots of N distinct voters on an open poll have all been
\* answered "registered", in whatever interleaving, the stored votes hold an
\* entry for each of the N voters, the tally's total is N and its counts sum
\* to N.
C1_NoBallotLost ==
    \A m \in MessageIDs :
        (VoteExists(kvs, Guild, m) /\ m \in DOMAIN msgs /\ NoCastInFlight(m)) =>
            LET vote == GetVote(kvs, Guild, m)
                n == Cardinality(DOMAIN ballots[m])
            IN  /\ DOMAIN ballots[m] \subseteq DOMAIN vote.Votes
                /\ String(vote).total = n
                /\ SumSeq(String(vote).counts) = n

\* C2: when concurrent grants and revokes on one group have all answered, the
\* stored role set holds every role whose grant was answered last and no role
\* whose revoke was answered last.
C2_NoGrantLost ==
    AllIdle =>
        \A g \in CommandGroups, r \in Roles :
            /\ acl[g][r] = "grant" => r \in StoredRoles(g)
            /\ acl[g][r] = "revoke" => r \notin StoredRoles(g)

\* C3: after grants and revokes run one after another on a group, the stored
\* role set equals the set obtained by replaying them on an in-memory set.
C3_SequenceMatchesSet ==
    AllIdle => \A g \in CommandGroups : StoredRoles(g) = ReplayedRoles(g)

C3_Witness ==
    /\ AllIdle
    /\ nops = 3
    /\ last = [op |-> "revoke", resp |-> "revoked", err |-> FALSE]
    /\ acl["faqadmin"][21] = "revoke"
    /\ acl["faqadmin"][22] = "grant"
    /\ Found(kvs, Guild, "access", "faqadmin")
    /\ GetObject(kvs, Guild, "access", "faqadmin") = <<22>>

\* C4: when ballots are cast one after another, the stored votes hold one
\* entry for each voter whose ballot was registered, and its value is the key
\* of the voter's most recent registered ballot; the tally counts each such
\* voter once.
C4_LastBallotWins ==
    \A m \in MessageIDs :
        (AllIdle /\ VoteExists(kvs, Guild, m)) =>
            LET vote == GetVote(kvs, Guild, m)
            IN  /\ DOMAIN vote.Votes = DOMAIN ballots[m]
                /\ \A u \in DOMAIN ballots[m] : vote.Votes[u] = Last(ballots[m][u])
                /\ String(vote).total = Cardinality(DOMAIN ballots[m])

C4_Witness ==
    /\ AllIdle
    /\ VoteExists(kvs, Guild, 1)
    /\ ballots[1] = (11 :> <<"vote/0", "vote/1">>)
    /\ GetVote(kvs, Guild, 1).Votes = (11 :> "vote/1")
    /\ String(GetVote(kvs, Guild, 1)).total = 1
    /\ String(GetVote(kvs, Guild, 1)).counts = <<0, 1>>

\* Handler p is invoked in this step and goes on to edit the message.
Proceeds(p) == pc[p] = "idle" /\ pc'[p] = "EditMessage"

\* A ballot cast is answered resp in this step.
Answers(resp) == last' # last /\ last'.op = "vote" /\ last'.resp = resp

\* C5: a ballot cast on a stored poll when now >= endTime (now = endTime
\* included) is answered "closed" and goes no further: no handler goes on to
\* the edit and the store with a vote whose endTime is not after now, and the
\* step that answers "closed" leaves the store and the messages as they were.
C5_ClosedPollRejects ==
    [][ /\ \A p \in Procs :
              Proceeds(p) => GetVote(kvs, Guild, loc'[p].msg).EndTime > now
        /\ Answers("closed") => (kvs' = kvs /\ msgs' = msgs /\ pc' = pc) ]_vars

C5_Witness ==
    /\ last = [op |-> "vote", resp |-> "closed", err |-> FALSE]
    /\ VoteExists(kvs, Guild, 1)
    /\ GetVote(kvs, Guild, 1).EndTime = now
    /\ GetVote(kvs, Guild, 1).StartTime < now

\* C6: a ballot cast on an open poll with a key that is no key of the
\* record's options is rejected and writes nothing: no handler goes on to the
\* edit and the store with such a key, and the step that rejects it leaves the
\* store as it was.
C6_UnknownOptionRejects ==
    [][ /\ \A p \in Procs :
              Proceeds(p) =>
                  loc'[p].voted \in DOMAIN GetVote(kvs, Guild, loc'[p].msg).Options
        /\ Answers("cantvote") => (kvs' = kvs /\ msgs' = msgs /\ pc' = pc) ]_vars

C6_Witness ==
    /\ last = [op |-> "vote", resp |-> "cantvote", err |-> TRUE]
    /\ VoteExists(kvs, Guild, 1)
    /\ GetVote(kvs, Guild, 1).EndTime > now
    /\ "vote/7" \notin DOMAIN GetVote(kvs, Guild, 1).Options

\* C7: in every reachable state every value of the votes of every stored
\* Vote record is a key of that record's options.
C7_VotesAreOptions ==
    \A k \in VoteKeys :
        \A u \in DOMAIN kvs[k].Votes : kvs[k].Votes[u] \in DOMAIN kvs[k].Options

C7_Witness ==
    \E k \in VoteKeys : Cardinality(DOMAIN kvs[k].Votes) = 2

\* The store step of handler p is a re-vote: the sender has an entry in the
\* stored record already.
ReVote(p) ==
    /\ pc[p] = "Store"
    /\ VoteExists(kvs, Guild, loc[p].msg)
    /\ loc[p].sender \in DOMAIN GetVote(kvs, Guild, loc[p].msg).Votes

Size(store, m) ==
    IF VoteExists(store, Guild, m)
       THEN Cardinality(DOMAIN GetVote(store, Guild, m).Votes)
       ELSE 0

\* C8: in every reachable state the votes of a stored record have at most as
\* many entries as distinct voters have had a ballot registered on that poll,
\* and the store of a re-vote never makes the votes larger.
C8_VotesNotInflated ==
    [][ /\ \A m \in MessageIDs : Size(kvs', m) <= Cardinality(DOMAIN ballots'[m])
        /\ \A p \in Procs :
              (ReVote(p) /\ pc'[p] = "idle") => Size(kvs', loc[p].msg) <= Size(kvs, loc[p].msg) ]_vars

\* C9: a Vote record is stored only by the callback, after the message is
\* confirmed: while a poll's handler has not run its callback's Store, its
\* vote has the null ids and no record is stored for its message, and every
\* stored record carries the id of a message the platform created, as its key
\* and as its messageID, and that message's channel.
C9_StoredOnlyWhenConfirmed ==
    /\ \A p \in Procs :
          pc[p] \in {"Respond", "Callback"} =>
              /\ loc[p].vote.MessageID = NullMessageID
              /\ loc[p].vote.ChannelID = NullChannelID
              /\ pc[p] = "Callback" => ~VoteExists(kvs, Guild, loc[p].msg)
    /\ \A k \in VoteKeys :
          /\ k[3] \in 1..(nextID - 1)
          /\ kvs[k].MessageID = k[3]
          /\ kvs[k].GuildID = k[1]
          /\ kvs[k].ChannelID = Channel
          /\ kvs[k].MessageID # NullMessageID
          /\ kvs[k].ChannelID # NullChannelID

C9_Witness ==
    /\ last = [op |-> "modal", resp |-> "stored", err |-> FALSE]
    /\ VoteExists(kvs, Guild, 1)
    /\ GetVote(kvs, Guild, 1).Votes = EmptyMap

\* C10: a member who holds a role that is stored as granted for a command
\* group is allowed by HasAccess to use the commands of that group.
C10_GrantedRoleHasAccess ==
    \A g \in CommandGroups, member \in Members \ {NoMember} :
        (member.roles \cap StoredRoles(g) # {}) =>
            HasAccess(kvs, member, FALSE, FALSE, g)

\* C11: every stored Vote record was created for a length d with 0 < d <= 365
\* days: its endTime is after its startTime and at most 365 days after it (a
\* request for d = 0 is rejected and stores nothing).
C11_DurationInRange ==
    \A k \in VoteKeys :
        /\ kvs[k].StartTime < kvs[k].EndTime
        /\ kvs[k].EndTime <= kvs[k].StartTime + MaxDays * SecondsPerDay

\* The event that is handled in this step, when one is taken off the queue.
Handled == CHOOSE e \in events : e \notin events'

\* C12: DeleteVote is idempotent. The step that handles the deletion of
\* message m leaves every other record of the store as it was; when there is
\* no record for m it leaves the whole store as it was; and the store it
\* leaves after removing the record is the store a second deletion of m
\* leaves. A deletion outside any guild changes nothing.
C12_DeleteIdempotent ==
    [][ /\ (events' # events /\ events' \subseteq events) =>
              LET key == Key(Handled[1], "votes", Handled[2])
              IN  /\ \A k \in DOMAIN kvs \ {key} : k \in DOMAIN kvs' /\ kvs'[k] = kvs[k]
                  /\ DOMAIN kvs' \subseteq DOMAIN kvs
                  /\ key \notin DOMAIN kvs => kvs' = kvs
                  /\ kvs' # kvs => key \notin DOMAIN kvs'
                  /\ last'.resp = "deleted" =>
                        /\ key \notin DOMAIN kvs'
                        /\ Delete(kvs', Handled[1], "votes", Handled[2]) = kvs'
        /\ (last' # last /\ last'.op = "delete" /\ last'.resp = "noguild") => kvs' = kvs ]_vars

\* A message is deleted before its poll's callback has stored the record:
\* DeleteVote has found no record, and the access list is still there.
C12_Witness ==
    /\ last = [op |-> "delete", resp |-> "deleted", err |-> FALSE]
    /\ \E p \in Procs : pc[p] = "Callback" /\ loc[p].msg = 1
    /\ events = {}
    /\ DOMAIN kvs = {Key(Guild, "access", "faqadmin")}

\* The handlers that have run the loop over the option lines.
Looped == {p \in Procs : pc[p] \in {"OptionsDone", "Respond", "Callback"}}

\* The keys as the spec writes them, and as strconv.Itoa writes them after
\* "vote/", for the positions 0 to 24.
OptKeys ==
    << "opt/0", "opt/1", "opt/2", "opt/3", "opt/4", "opt/5", "opt/6", "opt/7",
       "opt/8", "opt/9", "opt/10", "opt/11", "opt/12", "opt/13", "opt/14",
       "opt/15", "opt/16", "opt/17", "opt/18", "opt/19", "opt/20", "opt/21",
       "opt/22", "opt/23", "opt/24" >>

VoteOptionKeys ==
    << "vote/0", "vote/1", "vote/2", "vote/3", "vote/4", "vote/5", "vote/6",
       "vote/7", "vote/8", "vote/9", "vote/10", "vote/11", "vote/12", "vote/13",
       "vote/14", "vote/15", "vote/16", "vote/17", "vote/18", "vote/19",
       "vote/20", "vote/21", "vote/22", "vote/23", "vote/24" >>

\* C13, as stated: the option line at position i (from 0) gets the key
\* "opt/i".
C13_KeysAreOpt ==
    \A p \in Looped :
        \A i \in 1..Len(loc[p].vote.Order) :
            /\ loc[p].vote.Order[i] = OptKeys[i]
            /\ OptKeys[i] \in DOMAIN loc[p].vote.Options

\* C13, amended: the option line at position i (from 0) gets the key
\* "vote/i", whatever the lines are: the same position has the same key in
\* every list, and the key's label is made from the line at that position.
C13_KeysAreVote ==
    \A p \in Looped :
        LET vote == loc[p].vote
            lines == loc[p].optionList
        IN  \A i \in 1..Len(lines) :
                i <= 25 =>
                    /\ i <= Len(vote.Order)
                    /\ vote.Order[i] = VoteOptionKeys[i]
                    /\ VoteOptionKeys[i] \in DOMAIN vote.Options
                    /\ Len(vote.Options[VoteOptionKeys[i]]) <= Len(lines[i])
                    /\ \A j \in 1..Len(vote.Options[VoteOptionKeys[i]]) :
                          vote.Options[VoteOptionKeys[i]][j] = lines[i][j]

C13_Witness ==
    \E p \in Procs :
        /\ pc[p] = "OptionsDone"
        /\ Len(loc[p].optionList) = 27
        /\ Len(loc[p].vote.Order) = 25
        /\ loc[p].vote.Order[1] = "vote/0"
        /\ loc[p].vote.Order[25] = "vote/24"

\* The elements of a sequence.
Range(seq) == {seq[i] : i \in 1..Len(seq)}

\* C14: whatever the option lines are, the vote has at most 25 options, the
\* lines from index 25 on are dropped, every label has at most 100 characters
\* and is its line, cut to 100 characters when the line is longer, and order
\* lists exactly the keys of options, each once, in the order of the lines.
C14_OptionsBounded ==
    \A p \in Looped :
        LET vote == loc[p].vote
            lines == loc[p].optionList
            n == IF Len(lines) < 25 THEN Len(lines) ELSE 25
        IN  /\ Cardinality(DOMAIN vote.Options) <= 25
            /\ Cardinality(DOMAIN vote.Options) = n
            /\ Len(vote.Order) = n
            /\ Range(vote.Order) = DOMAIN vote.Options
            /\ \A i, j \in 1..Len(vote.Order) : vote.Order[i] = vote.Order[j] => i = j
            /\ \A i \in 1..n :
                  LET label == vote.Options[vote.Order[i]]
                  IN  /\ Len(label) <= 100
                      /\ Len(label) = IF Len(lines[i]) > 100 THEN 100 ELSE Len(lines[i])
                      /\ \A j \in 1..Len(label) : label[j] = lines[i][j]

C14_Witness ==
    \E p \in Procs :
        /\ pc[p] = "OptionsDone"
        /\ Len(loc[p].optionList) = 27
        /\ Len(loc[p].optionList[1]) = 101
        /\ Len(loc[p].optionList[2]) = 100
        /\ Cardinality(DOMAIN loc[p].vote.Options) = 25
        /\ Len(loc[p].vote.Options["vote/0"]) = 100
        /\ Len(loc[p].vote.Options["vote/1"]) = 100

\* The keys of the store that hold access lists.
AccessKeys == {k \in DOMAIN kvs : k[2] = "access"}

\* C15: in every reachable state, however grants and revokes interleave, no
\* stored role list holds a role more than once.
C15_NoDuplicateRoles ==
    \A k \in AccessKeys :
        \A i, j \in 1..Len(kvs[k]) : kvs[k][i] = kvs[k][j] => i = j

\* A grant of role 21 is about to write its list while role 21 is stored
\* already: the same role granted twice, the second before the first's write.
C15_Witness ==
    /\ Found(kvs, Guild, "access", "faqadmin")
    /\ GetObject(kvs, Guild, "access", "faqadmin") = <<21>>
    /\ \E p \in Procs :
          /\ pc[p] = "GrantSet"
          /\ loc[p].group = "faqadmin"
          /\ loc[p].role = 21
          /\ loc[p].granted = <<21>>

\* C16: a revoke of a role that is not in the stored role list writes
\* nothing: a revoke goes on to its Set only when the list it read holds the
\* role, and the revoke that is answered at once leaves the store as it was
\* (no record is created where there was none, an existing one is unchanged).
C16_AbsentRevokeWritesNothing ==
    [][ /\ \A p \in Procs :
              (pc[p] = "idle" /\ pc'[p] = "RevokeSet") =>
                  loc'[p].role \in StoredRoles(loc'[p].group)
        /\ (pc' = pc /\ last'.op = "revoke") => kvs' = kvs ]_vars

\* Role 21 is granted on faqadmin, and nothing else has gone on to a write:
\* role 22 was revoked on faqadmin, whose list does not hold it, and role 21
\* was revoked on seen, which has no record.
C16_Witness ==
    /\ AllIdle
    /\ nops = 1
    /\ last = [op |-> "revoke", resp |-> "revoked", err |-> FALSE]
    /\ acl["faqadmin"][22] = "revoke"
    /\ acl["seen"][21] = "revoke"
    /\ DOMAIN kvs = {Key(Guild, "access", "faqadmin")}
    /\ GetObject(kvs, Guild, "access", "faqadmin") = <<21>>

\* C17: once DeleteVote has removed the record of a message, the message has
\* no record in any later state. A ballot handler that is at its Store has
\* read the record, so when the record is not there any more DeleteVote has
\* removed it since: that Store does not write the record back.
C17_DeletedStaysDeleted ==
    [][ \A p \in Procs :
            (pc[p] = "Store" /\ pc'[p] = "idle" /\ ~VoteExists(kvs, Guild, loc[p].msg))
                => ~VoteExists(kvs', Guild, loc[p].msg) ]_vars

\* The option keys of a selector, in its sequence.
Values(selectable) == [i \in 1..Len(selectable) |-> selectable[i].Value]

\* C20: the selector built for a poll lists the options in the sequence given
\* by order, so that every construction from the same vote gives the same
\* sequence.
C20_SelectorFollowsOrder ==
    \A p \in Procs :
        pc[p] \in {"Respond", "Callback"} => Values(loc[p].selectable) = loc[p].vote.Order

\* C18: whenever a poll has a message and a record and no ballot cast on it
\* is in flight, the tally in the message's content is the tally of the
\* stored record, also after casts whose edit or store failed.
C18_RenderedTallyIsStored ==
    \A m \in MessageIDs :
        (m \in DOMAIN msgs /\ VoteExists(kvs, Guild, m) /\ NoCastInFlight(m)) =>
            msgs[m].content = String(GetVote(kvs, Guild, m))

\* Handler p runs the Store of its ballot cast in this step.
Stores(p) == pc[p] = "Store" /\ pc'[p] = "idle"

\* Everything of a record but its votes.
Fixed(vote) ==
    << vote.StartTime, vote.EndTime, vote.GuildID, vote.ChannelID, vote.MessageID,
       vote.Question, vote.Options, vote.Order >>

\* The Store of p leaves everything of the record but its votes as it was.
KeepsFields(p) ==
    (VoteExists(kvs, Guild, loc[p].msg) /\ VoteExists(kvs', Guild, loc[p].msg)) =>
        Fixed(GetVote(kvs', Guild, loc[p].msg)) = Fixed(GetVote(kvs, Guild, loc[p].msg))

\* The Store of p leaves the votes of all voters but its sender as they were.
KeepsOthers(p) ==
    LET before == GetVote(kvs, Guild, loc[p].msg).Votes
        after == GetVote(kvs', Guild, loc[p].msg).Votes
    IN  \A u \in Voters \ {loc[p].sender} :
            /\ u \in DOMAIN before <=> u \in DOMAIN after
            /\ u \in DOMAIN before => after[u] = before[u]

\* C19: with ballots cast one at a time, the Store of a ballot cast changes
\* nothing in the store but the votes entry of the casting voter: the record
\* is there before and after, its startTime, endTime, tenantID, channelID,
\* messageID, question, options and order are the same, the entries of all
\* other voters are unchanged, and no other record changes.
C19_BallotFrame ==
    [][ \A p \in Procs :
            Stores(p) =>
                /\ VoteExists(kvs, Guild, loc[p].msg)
                /\ VoteExists(kvs', Guild, loc[p].msg)
                /\ DOMAIN kvs' = DOMAIN kvs
                /\ \A k \in DOMAIN kvs \ {Key(Guild, "votes", loc[p].msg)} : kvs'[k] = kvs[k]
                /\ KeepsFields(p)
                /\ KeepsOthers(p)
                /\ last'.resp = "registered" =>
                      GetVote(kvs', Guild, loc[p].msg).Votes[loc[p].sender] = loc[p].voted ]_vars

\* The fields are kept by every Store of a ballot cast, also when casts run
\* concurrently (checked under SpecVote).
BallotKeepsFields == [][ \A p \in Procs : Stores(p) => KeepsFields(p) ]_vars

\* Voter 12's ballot was registered after voter 11's, and both are stored.
C19_Witness ==
    /\ AllIdle
    /\ last = [op |-> "vote", resp |-> "registered", err |-> FALSE]
    /\ VoteExists(kvs, Guild, 1)
    /\ GetVote(kvs, Guild, 1).Votes = (11 :> "vote/0" @@ 12 :> "vote/1")
    /\ ballots[1] = (11 :> <<"vote/0">> @@ 12 :> <<"vote/1">>)

\* C21: a ballot is accepted only for a poll whose record is in the store. A
\* handler goes on to the edit and the store only with a message that has a
\* record; the answer "not a poll" is no error and leaves the store, the
\* messages and the other handlers as they were; and while no message has a
\* record, a ballot cast is answered "not a poll" (or, when the read itself
\* fails, with an error) and nothing else.
C21_NoRecordNoBallot ==
    [][ /\ \A p \in Procs : Proceeds(p) => VoteExists(kvs, Guild, loc'[p].msg)
        /\ Answers("notpoll") =>
              (kvs' = kvs /\ msgs' = msgs /\ pc' = pc /\ ballots' = ballots /\ ~last'.err)
        /\ (last' # last /\ last'.op = "vote" /\ pc' = pc
               /\ \A m \in MessageIDs : ~VoteExists(kvs, Guild, m))
              => last'.resp \in {"notpoll", "odd"} ]_vars

\* The message of a poll is there and nothing is in flight, but only the
\* poll's creation ever went past its checks and there is no record: the
\* callback's write failed, and a ballot on the message was answered "not a
\* poll".
C21_Witness ==
    /\ AllIdle
    /\ nops = 1
    /\ 1 \in DOMAIN msgs
    /\ events = {}
    /\ kvs = EmptyMap
    /\ ballots[1] = EmptyMap
    /\ last = [op |-> "vote", resp |-> "notpoll", err |-> FALSE]

\* C22: a ballot cast, a grant or a revoke whose write fails with the
\* transient ConflictAborted error runs its read-modify-write again: it
\* reports the failure only when it has read the store more than once.
C22_ConflictIsRetried ==
    [][ \A p \in Procs :
            (pc[p] \in {"Store", "GrantSet", "RevokeSet"} /\ pc'[p] = "idle"
                /\ last'.resp = "conflict" /\ last'.err)
              => loc[p].reads > 1 ]_vars

====
